---- MODULE Spec2Model ----
(***************************************************************************)
(* Model of src/main.py: the SSID resolver.  main() reads the platform,    *)
(* dispatches to one of three strategies, each of which runs external      *)
(* commands and parses their output, and turns every outcome into either   *)
(* an SSID or None.                                                        *)
(*                                                                         *)
(* Text is modelled as a sequence of tokens.  A token stands for the       *)
(* characters it is written with: "SSID" for the four letters, " " and     *)
(* "\n" for white space, "a" for an ordinary character, and for the JSON   *)
(* output of termux-wifi-connectioninfo the lexical tokens of JSON.        *)
(***************************************************************************)
EXTENDS Integers, Sequences, FiniteSets, TLC

\* ---------------------------------------------------------------- bounds
MaxLen == 5          \* longest command output, in tokens
MaxErrLen == 1       \* longest output of a command that exits non-zero
MaxExit == 1         \* largest exit code a command returns
MaxDuration == 11    \* longest running time of a command that ends, in seconds
MaxCalls == 2        \* how many times main() is called

\* ------------------------------------------------------ program constants
Timeout == 10        \* subprocess.run(..., timeout=10)

\* ------------------------------------------------------------------ text
SP == " "
NL == "\n"

SeqsUpTo(A, n) == UNION {[1..k -> A] : k \in 0..n}

\* str.isspace() of one character
IsSpace(c) == c \in {SP, NL}

RECURSIVE LStrip(_)
LStrip(s) == IF s # <<>> /\ IsSpace(Head(s)) THEN LStrip(Tail(s)) ELSE s

RECURSIVE RStrip(_)
RStrip(s) ==
    IF s # <<>> /\ IsSpace(s[Len(s)]) THEN RStrip(SubSeq(s, 1, Len(s) - 1)) ELSE s

\* str.strip()
Strip(s) == RStrip(LStrip(s))

\* ---------------------------------------------------------- Python values
PyNone == [t |-> "None", v |-> <<>>]
PyStr(s) == [t |-> "str", v |-> s]
PyDict(items) == [t |-> "dict", v |-> items]
PyInt(n) == [t |-> "int", v |-> n]

\* bool(x) as "if ssid:" evaluates it
Truthy(x) ==
    CASE x.t = "None" -> FALSE
      [] x.t = "int" -> x.v # 0
      [] OTHER -> x.v # <<>>

\* --------------------------------------------------- regular expressions
\* the extent of (.*) starting at index k: up to, not including, the next
\* line break
RECURSIVE DotStarEnd(_, _)
DotStarEnd(s, k) ==
    IF k <= Len(s) /\ s[k] # NL THEN DotStarEnd(s, k + 1) ELSE k - 1

\* the index after the run of white space that starts at index k
RECURSIVE SpaceRunEnd(_, _)
SpaceRunEnd(s, k) ==
    IF k <= Len(s) /\ IsSpace(s[k]) THEN SpaceRunEnd(s, k + 1) ELSE k

\* r"SSID\s+:\s(.*)" matched at index i: the index where group 1 starts, or 0
WindowsMatchAt(s, i) ==
    LET j == SpaceRunEnd(s, i + 1)
    IN  IF /\ s[i] = "SSID"
           /\ j > i + 1
           /\ j + 1 <= Len(s)
           /\ s[j] = ":"
           /\ IsSpace(s[j + 1])
        THEN j + 2 ELSE 0

\* r"SSID:\s(.*)" matched at index i: the index where group 1 starts, or 0
DarwinMatchAt(s, i) ==
    IF /\ s[i] = "SSID"
       /\ i + 2 <= Len(s)
       /\ s[i + 1] = ":"
       /\ IsSpace(s[i + 2])
    THEN i + 3 ELSE 0

\* the pattern of the platform's strategy matched at index i
MatchAt(os, s, i) ==
    IF os = "Windows" THEN WindowsMatchAt(s, i) ELSE DarwinMatchAt(s, i)

NoMatch == [found |-> FALSE, group |-> <<>>]

\* re.search(pattern, output): the leftmost match and its group 1
ReSearch(os, s) ==
    LET starts == {i \in 1..Len(s) : MatchAt(os, s, i) # 0}
    IN  IF starts = {} THEN NoMatch
        ELSE LET i == CHOOSE x \in starts : \A y \in starts : x <= y
                 g == MatchAt(os, s, i)
             IN  [found |-> TRUE, group |-> SubSeq(s, g, DotStarEnd(s, g))]

\* ------------------------------------------------------------------ JSON
JsonStrings == {"\"ssid\"", "\"a\"", "\"\""}

\* the text of a JSON string literal
StrVal(tok) ==
    CASE tok = "\"ssid\"" -> <<"ssid">>
      [] tok = "\"a\"" -> <<"a">>
      [] OTHER -> <<>>

JsonError == [ok |-> FALSE, val |-> PyNone, end |-> 0]
JsonOk(v, e) == [ok |-> TRUE, val |-> v, end |-> e]

\* json's WHITESPACE.match(s, i).end()
RECURSIVE SkipWs(_, _)
SkipWs(s, i) == IF i <= Len(s) /\ s[i] = SP THEN SkipWs(s, i + 1) ELSE i

RECURSIVE ParseValue(_, _)
RECURSIVE ParseObject(_, _)

\* the scanner at index i: a string, null, a number or an object
ParseValue(s, i) ==
    IF i > Len(s) THEN JsonError
    ELSE IF s[i] \in JsonStrings THEN JsonOk(PyStr(StrVal(s[i])), i + 1)
    ELSE IF s[i] = "null" THEN JsonOk(PyNone, i + 1)
    ELSE IF s[i] = "1" THEN JsonOk(PyInt(1), i + 1)
    ELSE IF s[i] = "{" THEN ParseObject(s, i + 1)
    ELSE JsonError

\* JSONObject after the opening brace at index i - 1
ParseObject(s, i) ==
    LET j == SkipWs(s, i)
    IN  IF j > Len(s) THEN JsonError
        ELSE IF s[j] = "}" THEN JsonOk(PyDict(<<>>), j + 1)
        ELSE IF s[j] \notin JsonStrings THEN JsonError
        ELSE LET k == SkipWs(s, j + 1)
             IN  IF k > Len(s) \/ s[k] # ":" THEN JsonError
                 ELSE LET r == ParseValue(s, SkipWs(s, k + 1))
                          e == SkipWs(s, r.end)
                      IN  IF ~r.ok THEN JsonError
                          ELSE IF e > Len(s) \/ s[e] # "}" THEN JsonError
                          ELSE JsonOk(PyDict(<<<<StrVal(s[j]), r.val>>>>), e + 1)

\* json.loads(s): the value, or JSONDecodeError (ok = FALSE)
JsonLoads(s) ==
    LET r == ParseValue(s, SkipWs(s, 1))
    IN  IF ~r.ok THEN JsonError
        ELSE IF SkipWs(s, r.end) # Len(s) + 1 THEN JsonError
        ELSE r

\* DictGet that never finds the key
DictGet_Missing(d, key) == PyNone

\* dict.get(key): the value stored under key, or None
DictGet(d, key) ==
    IF \E n \in 1..Len(d.v) : d.v[n][1] = key
    THEN d.v[CHOOSE n \in 1..Len(d.v) : d.v[n][1] = key][2]
    ELSE PyNone

\* ------------------------------------------------------------ vocabulary
Platforms == {"Windows", "Linux", "Darwin", "Java"}

Netsh == "netsh"
Termux == "termux-wifi-connectioninfo"
Iwgetid == "iwgetid"
Airport == "airport"

ExitCodes == 0..MaxExit

\* what netsh and airport may print
TextAlphabet == {"SSID", ":", SP, NL, "a"}
\* what termux-wifi-connectioninfo may print
JsonAlphabet == {"{", "}", ":", "null", "1", SP} \cup JsonStrings
\* what iwgetid -r may print
NameAlphabet == {"a", SP, NL}

\* the outputs a command may produce with the given exit code
Outputs(alphabet, code) ==
    SeqsUpTo(alphabet, IF code = 0 THEN MaxLen ELSE MaxErrLen)

\* how long a started command runs: for ever, or for some seconds
Fates == {[hangs |-> TRUE, duration |-> 0]}
         \cup {[hangs |-> FALSE, duration |-> d] : d \in 0..MaxDuration}

Child(cmd, fate) == [cmd |-> cmd, hangs |-> fate.hangs, duration |-> fate.duration]

\* a completed process: exit code and captured standard output
NoProcess == [set |-> FALSE, returncode |-> 0, stdout |-> <<>>]
Completed(code, out) == [set |-> TRUE, returncode |-> code, stdout |-> out]

\* the result of a function call: a value returned or an exception raised
Return(v) == [k |-> "return", v |-> v, e |-> "none"]
Raise(e) == [k |-> "raise", v |-> PyNone, e |-> e]
Pending == [k |-> "pending", v |-> PyNone, e |-> "none"]

Rec(level, msg) == [level |-> level, msg |-> msg]

\* logging's numeric order of the level names
LevelRank(level) ==
    CASE level = "DEBUG" -> 1
      [] level = "INFO" -> 2
      [] level = "WARNING" -> 3
      [] level = "ERROR" -> 4
      [] level = "CRITICAL" -> 5

VARIABLES
    os_name,    \* platform.system()
    pc,         \* where main() is: start, wait_<command>, done, crashed
    children,   \* the child processes that are running
    elapsed,    \* seconds subprocess.run has waited for its child
    spawned,    \* the commands invoked so far, in order
    missing,    \* the invoked commands that were not found
    killed,     \* the children subprocess.run killed when the timeout expired
    result,     \* the CompletedProcess of termux-wifi-connectioninfo
    output,     \* the process whose output check_output captured
    outcome,    \* what get_current_ssid() returned or raised
    log,        \* the log records emitted, in order
    ret,        \* what main() returned
    exc,        \* the exception that left main(), or "none"
    cause,      \* the exception an except clause turned into ExtractionError
    calls       \* how many times main() has been called

vars == <<os_name, pc, children, elapsed, spawned, missing, killed, result,
          output, outcome, log, ret, exc, cause, calls>>

Init ==
    /\ os_name \in Platforms
    /\ pc = "start"
    /\ children = {}
    /\ elapsed = 0
    /\ spawned = <<>>
    /\ missing = {}
    /\ killed = {}
    /\ result = NoProcess
    /\ output = NoProcess
    /\ outcome = Pending
    /\ log = <<>>
    /\ ret = Pending
    /\ exc = "none"
    /\ cause = "none"
    /\ calls = 1

\* ------------------------------------------------------------------ main
\* MainEnd with NotSupportedError handled by the clause for ExtractionError
MainEnd_UnsupportedAsError(o) ==
    IF o.k = "return"
    THEN IF Truthy(o.v)
         THEN [pc |-> "done", ret |-> Return(o.v), exc |-> "none",
               logs |-> <<Rec("INFO", "connected")>>]
         ELSE [pc |-> "done", ret |-> Return(PyNone), exc |-> "none",
               logs |-> <<Rec("WARNING", "not_connected")>>]
    ELSE IF o.e \in {"NotSupportedError", "ExtractionError"}
    THEN [pc |-> "done", ret |-> Return(PyNone), exc |-> "none",
          logs |-> <<Rec("ERROR", "extract_failed")>>]
    ELSE [pc |-> "crashed", ret |-> Pending, exc |-> o.e, logs |-> <<>>]

\* main() from the point where get_current_ssid() has returned or raised o:
\* the records it logs and how it ends
MainEnd(o) ==
    IF o.k = "return"
    THEN IF Truthy(o.v)
         THEN [pc |-> "done", ret |-> Return(o.v), exc |-> "none",
               logs |-> <<Rec("INFO", "connected")>>]
         ELSE [pc |-> "done", ret |-> Return(PyNone), exc |-> "none",
               logs |-> <<Rec("WARNING", "not_connected")>>]
    ELSE IF o.e = "NotSupportedError"
    THEN [pc |-> "done", ret |-> Return(PyNone), exc |-> "none",
          logs |-> <<Rec("CRITICAL", "not_supported")>>]
    ELSE IF o.e = "ExtractionError"
    THEN [pc |-> "done", ret |-> Return(PyNone), exc |-> "none",
          logs |-> <<Rec("ERROR", "extract_failed")>>]
    ELSE [pc |-> "crashed", ret |-> Pending, exc |-> o.e, logs |-> <<>>]

\* the rest of main() once the strategy has ended with o, lg being the log
\* up to that point
Main(o, lg) ==
    LET m == MainEnd(o)
    IN  /\ outcome' = o
        /\ pc' = m.pc
        /\ ret' = m.ret
        /\ exc' = m.exc
        /\ log' = lg \o m.logs

\* the first lines of main(): setup_logging() and the starting record
Started == Append(log, Rec("INFO", "starting"))

\* ------------------------------------------------- Windows and macOS
\* CommandExcept with FileNotFoundError left out of the except clause
CommandExcept_NotFoundEscapes(e) ==
    IF e = "CalledProcessError" THEN "ExtractionError" ELSE e

\* the except clause of _get_ssid_windows and _get_ssid_darwin, and of the
\* fallback of _get_ssid_linux: the exception that leaves it
CommandExcept(e) ==
    IF e \in {"CalledProcessError", "FileNotFoundError"}
    THEN "ExtractionError" ELSE e

\* subprocess.check_output of a command that ran: its output, or
\* CalledProcessError
CheckOutput(code, out) ==
    IF code # 0 THEN Raise("CalledProcessError") ELSE Return(PyStr(out))

\* the {e} that the except clause formats into the ExtractionError it
\* raises for exception e, or "none" when the clause does not handle e
ExceptCause(e) == IF CommandExcept(e) # e THEN e ELSE "none"

\* the cause of the exception that check_output of an ended command leads to
OutputCause(code, out) ==
    IF CheckOutput(code, out).k = "raise"
    THEN ExceptCause(CheckOutput(code, out).e) ELSE "none"

\* ParseMarker without the test of the match: group() of no match
ParseMarker_NoMatchTest(os, out) ==
    LET match == ReSearch(os, out)
    IN  IF match.found THEN Return(PyStr(Strip(match.group)))
        ELSE Raise("AttributeError")

\* re.search and the two returns that follow it
ParseMarker(os, out) ==
    LET match == ReSearch(os, out)
    IN  IF match.found THEN Return(PyStr(Strip(match.group)))
        ELSE Return(PyNone)

\* MarkerStrategy whose except clause returns None instead of raising
MarkerStrategy_SwallowsFailure(os, code, out) ==
    LET o == CheckOutput(code, out)
    IN  IF o.k = "raise" THEN Return(PyNone)
        ELSE ParseMarker(os, o.v.v)

\* _get_ssid_windows / _get_ssid_darwin once the command has ended
MarkerStrategy(os, code, out) ==
    LET o == CheckOutput(code, out)
    IN  IF o.k = "raise" THEN Raise(CommandExcept(o.e))
        ELSE ParseMarker(os, o.v.v)

\* a strategy that runs one command with check_output: the call up to the
\* point where the command is running or was not found
CallCommand(cmd, waitpc) ==
    /\ \E found \in BOOLEAN, fate \in Fates :
         /\ spawned' = Append(spawned, cmd)
         /\ IF found
            THEN /\ children' = children \cup {Child(cmd, fate)}
                 /\ pc' = waitpc
                 /\ log' = Started
                 /\ UNCHANGED <<missing, outcome, ret, exc, cause>>
            ELSE /\ missing' = missing \cup {cmd}
                 /\ Main(Raise(CommandExcept("FileNotFoundError")), Started)
                 /\ cause' = ExceptCause("FileNotFoundError")
                 /\ UNCHANGED children
    /\ UNCHANGED <<calls, os_name, elapsed, killed, result, output>>

\* the command ends: check_output returns or raises, the strategy parses
\* the output and main() finishes
CommandDone(cmd, os) ==
    /\ \E c \in children, code \in ExitCodes :
         \E out \in Outputs(TextAlphabet, code) :
           /\ c.cmd = cmd
           /\ ~c.hangs
           /\ children' = children \ {c}
           /\ output' = Completed(code, out)
           /\ Main(MarkerStrategy(os, code, out), log)
           /\ cause' = OutputCause(code, out)
    /\ UNCHANGED <<calls, os_name, elapsed, spawned, missing, killed, result>>

\* get_current_ssid on Windows: _get_ssid_windows starts netsh
get_ssid_windows_call ==
    /\ pc = "start"
    /\ os_name = "Windows"
    /\ CallCommand(Netsh, "wait_netsh")

\* netsh ends
get_ssid_windows_done ==
    /\ pc = "wait_netsh"
    /\ CommandDone(Netsh, "Windows")

\* get_ssid_darwin_call with the Windows command
get_ssid_darwin_call_Netsh ==
    /\ pc = "start"
    /\ os_name = "Darwin"
    /\ CallCommand(Netsh, "wait_netsh")

\* get_current_ssid on macOS: _get_ssid_darwin starts airport
get_ssid_darwin_call ==
    /\ pc = "start"
    /\ os_name = "Darwin"
    /\ CallCommand(Airport, "wait_airport")

\* airport ends
get_ssid_darwin_done ==
    /\ pc = "wait_airport"
    /\ CommandDone(Airport, "Darwin")

\* ----------------------------------------------------------------- Linux
\* LinuxTry without the test for empty output
LinuxTry_NoEmptyTest(res) ==
    IF res.returncode # 0
    THEN [o |-> Raise("ExtractionError"),
          logs |-> <<Rec("DEBUG", "termux_nonzero")>>]
    ELSE LET info == JsonLoads(res.stdout)
         IN  IF ~info.ok THEN [o |-> Raise("JSONDecodeError"), logs |-> <<>>]
             ELSE IF info.val.t # "dict"
             THEN [o |-> Raise("AttributeError"), logs |-> <<>>]
             ELSE [o |-> Return(DictGet(info.val, <<"ssid">>)), logs |-> <<>>]

\* LinuxTry that treats a missing or null ssid as a failure of termux-api
LinuxTry_NoneFallsBack(res) ==
    IF res.returncode # 0
    THEN [o |-> Raise("ExtractionError"),
          logs |-> <<Rec("DEBUG", "termux_nonzero")>>]
    ELSE IF Strip(res.stdout) = <<>>
    THEN [o |-> Raise("ExtractionError"),
          logs |-> <<Rec("DEBUG", "termux_empty")>>]
    ELSE LET info == JsonLoads(res.stdout)
         IN  IF ~info.ok THEN [o |-> Raise("JSONDecodeError"), logs |-> <<>>]
             ELSE IF info.val.t # "dict"
             THEN [o |-> Raise("AttributeError"), logs |-> <<>>]
             ELSE IF DictGet(info.val, <<"ssid">>) = PyNone
             THEN [o |-> Raise("ExtractionError"), logs |-> <<>>]
             ELSE [o |-> Return(DictGet(info.val, <<"ssid">>)), logs |-> <<>>]

\* the try block of _get_ssid_linux after subprocess.run has returned res:
\* what it returns or raises, and the records it logs
LinuxTry(res) ==
    IF res.returncode # 0
    THEN [o |-> Raise("ExtractionError"),
          logs |-> <<Rec("DEBUG", "termux_nonzero")>>]
    ELSE IF Strip(res.stdout) = <<>>
    THEN [o |-> Raise("ExtractionError"),
          logs |-> <<Rec("DEBUG", "termux_empty")>>]
    ELSE LET info == JsonLoads(res.stdout)
         IN  IF ~info.ok THEN [o |-> Raise("JSONDecodeError"), logs |-> <<>>]
             ELSE IF info.val.t # "dict"
             THEN [o |-> Raise("AttributeError"), logs |-> <<>>]
             ELSE [o |-> Return(DictGet(info.val, <<"ssid">>)), logs |-> <<>>]

\* LinuxExcept with JSONDecodeError handled by the fallback clause
LinuxExcept_ParseFallsBack(e) ==
    IF e \in {"ExtractionError", "TimeoutExpired", "JSONDecodeError"}
    THEN "fallback"
    ELSE "propagate"

\* LinuxExcept with one clause that catches every exception and falls back
LinuxExcept_Broad(e) == "fallback"

\* the except clause of _get_ssid_linux that handles exception e
LinuxExcept(e) ==
    IF e \in {"ExtractionError", "TimeoutExpired"} THEN "fallback"
    ELSE IF e = "JSONDecodeError" THEN "parse_error"
    ELSE "propagate"

\* RunTimeout that raises without killing the child
RunTimeout_NoKill(ch, c) == ch

\* what subprocess.run leaves running when the timeout expires on child c:
\* it kills the child and waits for it
RunTimeout(ch, c) == ch \ {c}

\* the fallback: iwgetid -r is started with check_output, or is not found
Fallback(ch, sp, ms, lg) ==
    \E found \in BOOLEAN, fate \in Fates :
      /\ spawned' = Append(sp, Iwgetid)
      /\ IF found
         THEN /\ children' = ch \cup {Child(Iwgetid, fate)}
              /\ missing' = ms
              /\ pc' = "wait_iwgetid"
              /\ log' = lg
              /\ UNCHANGED <<outcome, ret, exc, cause>>
         ELSE /\ children' = ch
              /\ missing' = ms \cup {Iwgetid}
              /\ Main(Raise(CommandExcept("FileNotFoundError")), lg)
              /\ cause' = ExceptCause("FileNotFoundError")

\* _get_ssid_linux from the end of the try block, which ended with t, up to
\* the point where it returns, raises or waits for iwgetid
LinuxAfterTry(t, ch, sp, ms, lg) ==
    IF t.o.k = "return"
    THEN /\ Main(t.o, lg \o t.logs)
         /\ children' = ch
         /\ spawned' = sp
         /\ missing' = ms
         /\ UNCHANGED cause
    ELSE IF LinuxExcept(t.o.e) = "fallback"
    THEN Fallback(ch, sp, ms, (lg \o t.logs) \o <<Rec("WARNING", "termux_fallback")>>)
    ELSE IF LinuxExcept(t.o.e) = "parse_error"
    THEN /\ Main(Raise("ExtractionError"),
                 (lg \o t.logs) \o <<Rec("ERROR", "termux_parse")>>)
         /\ cause' = t.o.e
         /\ children' = ch
         /\ spawned' = sp
         /\ missing' = ms
    ELSE /\ Main(t.o, lg \o t.logs)
         /\ children' = ch
         /\ spawned' = sp
         /\ missing' = ms
         /\ UNCHANGED cause

\* _get_ssid_linux up to the point where termux-wifi-connectioninfo is
\* running; when it is not found subprocess.run raises FileNotFoundError
get_ssid_linux_call ==
    /\ pc = "start"
    /\ os_name = "Linux"
    /\ \E found \in BOOLEAN, fate \in Fates :
         IF found
         THEN /\ children' = children \cup {Child(Termux, fate)}
              /\ spawned' = Append(spawned, Termux)
              /\ pc' = "wait_termux"
              /\ log' = Started
              /\ UNCHANGED <<missing, outcome, ret, exc, cause>>
         ELSE LinuxAfterTry([o |-> Raise("FileNotFoundError"), logs |-> <<>>],
                            children, Append(spawned, Termux),
                            missing \cup {Termux}, Started)
    /\ elapsed' = 0
    /\ UNCHANGED <<calls, os_name, killed, result, output>>

\* a second passes while subprocess.run waits for the child
get_ssid_linux_tick ==
    /\ pc = "wait_termux"
    /\ elapsed < Timeout
    /\ \E c \in children :
         /\ c.cmd = Termux
         /\ c.hangs \/ elapsed < c.duration
    /\ elapsed' = elapsed + 1
    /\ UNCHANGED <<calls, os_name, pc, children, spawned, missing, killed, result,
                   output, outcome, log, ret, exc, cause>>

\* termux-wifi-connectioninfo ends within the timeout
get_ssid_linux_exit ==
    /\ pc = "wait_termux"
    /\ \E c \in children :
         /\ c.cmd = Termux
         /\ ~c.hangs
         /\ c.duration = elapsed
         /\ \E code \in ExitCodes :
              \E out \in Outputs(JsonAlphabet, code) :
                /\ result' = Completed(code, out)
                /\ LinuxAfterTry(LinuxTry(Completed(code, out)),
                                 children \ {c}, spawned, missing, log)
    /\ elapsed' = 0
    /\ UNCHANGED <<calls, os_name, killed, output>>

\* get_ssid_linux_timeout of a subprocess.run without timeout=10
get_ssid_linux_timeout_Never ==
    /\ pc = "wait_termux"
    /\ FALSE
    /\ UNCHANGED vars

\* the timeout expires: subprocess.run raises TimeoutExpired
get_ssid_linux_timeout ==
    /\ pc = "wait_termux"
    /\ elapsed = Timeout
    /\ \E c \in children :
         /\ c.cmd = Termux
         /\ c.hangs \/ c.duration >= Timeout
         /\ killed' = killed \cup {c}
         /\ LinuxAfterTry([o |-> Raise("TimeoutExpired"), logs |-> <<>>],
                          RunTimeout(children, c), spawned, missing, log)
    /\ elapsed' = 0
    /\ UNCHANGED <<calls, os_name, result, output>>

\* LinuxFallback without the strip
LinuxFallback_NoStrip(code, out) ==
    LET o == CheckOutput(code, out)
    IN  IF o.k = "raise" THEN Raise(CommandExcept(o.e))
        ELSE Return(IF o.v.v # <<>> THEN o.v ELSE PyNone)

\* check_output of iwgetid -r, the strip and the return that follow it
LinuxFallback(code, out) ==
    LET o == CheckOutput(code, out)
    IN  IF o.k = "raise" THEN Raise(CommandExcept(o.e))
        ELSE LET stripped == Strip(o.v.v)
             IN  Return(IF stripped # <<>> THEN PyStr(stripped) ELSE PyNone)

\* iwgetid ends
get_ssid_linux_fallback_done ==
    /\ pc = "wait_iwgetid"
    /\ \E c \in children, code \in ExitCodes :
         \E out \in Outputs(NameAlphabet, code) :
           /\ c.cmd = Iwgetid
           /\ ~c.hangs
           /\ children' = children \ {c}
           /\ output' = Completed(code, out)
           /\ Main(LinuxFallback(code, out), log)
           /\ cause' = OutputCause(code, out)
    /\ UNCHANGED <<calls, os_name, elapsed, spawned, missing, killed, result>>

\* ------------------------------------------------------------ dispatcher
\* get_current_ssid on a platform that is none of the three
get_current_ssid_unsupported ==
    /\ pc = "start"
    /\ os_name \notin {"Windows", "Linux", "Darwin"}
    /\ Main(Raise("NotSupportedError"), Started)
    /\ UNCHANGED <<cause, calls, os_name, children, elapsed, spawned, missing, killed,
                   result, output>>

Next ==
    \/ get_ssid_windows_call
    \/ get_ssid_windows_done
    \/ get_ssid_darwin_call
    \/ get_ssid_darwin_done
    \/ get_ssid_linux_call
    \/ get_ssid_linux_tick
    \/ get_ssid_linux_exit
    \/ get_ssid_linux_timeout
    \/ get_ssid_linux_fallback_done
    \/ get_current_ssid_unsupported

Spec == Init /\ [][Next]_vars

\* the interpreter keeps running, time passes, and a child that does not
\* hang ends
FairSpec == Spec /\ WF_vars(Next)

\* ------------------------------------------------------- repeated calls
\* main_again that keeps the list of invoked commands of the earlier call
main_again_KeepsSpawned ==
    /\ pc = "done"
    /\ calls < MaxCalls
    /\ calls' = calls + 1
    /\ pc' = "start"
    /\ elapsed' = 0
    /\ missing' = {}
    /\ killed' = {}
    /\ result' = NoProcess
    /\ output' = NoProcess
    /\ outcome' = Pending
    /\ log' = <<>>
    /\ ret' = Pending
    /\ exc' = "none"
    /\ cause' = "none"
    /\ UNCHANGED <<os_name, children, spawned>>

\* the caller calls main() once more after it has returned: the locals of
\* every function are new, the platform is the same, and the children of
\* the earlier call have all ended
main_again ==
    /\ pc = "done"
    /\ calls < MaxCalls
    /\ calls' = calls + 1
    /\ pc' = "start"
    /\ elapsed' = 0
    /\ spawned' = <<>>
    /\ missing' = {}
    /\ killed' = {}
    /\ result' = NoProcess
    /\ output' = NoProcess
    /\ outcome' = Pending
    /\ log' = <<>>
    /\ ret' = Pending
    /\ exc' = "none"
    /\ cause' = "none"
    /\ UNCHANGED <<os_name, children>>

NextCalls ==
    \/ get_ssid_windows_call
    \/ get_ssid_windows_done
    \/ get_ssid_darwin_call
    \/ get_ssid_darwin_done
    \/ get_ssid_linux_call
    \/ get_ssid_linux_tick
    \/ get_ssid_linux_exit
    \/ get_ssid_linux_timeout
    \/ get_ssid_linux_fallback_done
    \/ get_current_ssid_unsupported
    \/ main_again

SpecCalls == Init /\ [][NextCalls]_vars

\* ---------------------------------------------------------------- claims
Ended == pc \in {"done", "crashed"}

\* how many times cmd has been invoked
Invocations(cmd) == Cardinality({i \in 1..Len(spawned) : spawned[i] = cmd})

Running(cmd) == \E c \in children : c.cmd = cmd

Absent == ret = Return(PyNone)

LastLog == log[Len(log)]

\* the marker pattern of the platform matches somewhere in the text
HasMarker(os, s) == \E i \in 1..Len(s) : MatchAt(os, s, i) # 0

\* the outcome of the Linux strategy as the fallback command alone decides it
FallbackDecides ==
    IF Iwgetid \in missing \/ (output.set /\ output.returncode # 0)
    THEN Raise("ExtractionError")
    ELSE IF Strip(output.stdout) = <<>> THEN Return(PyNone)
    ELSE Return(PyStr(Strip(output.stdout)))

\* C1: whatever the platform and whatever the commands do, main() ends by
\* returning an SSID string or None; no exception leaves main().
C1_EveryFailureCaught ==
    /\ pc # "crashed"
    /\ exc = "none"
    /\ pc = "done" => ret.k = "return" /\ ret.v.t \in {"None", "str"}

\* C2: on Linux, when termux-wifi-connectioninfo is not found, iwgetid is
\* invoked, and when iwgetid prints a non-empty name main() returns it.
C2_MissingPreferredFallsBack ==
    (os_name = "Linux" /\ Termux \in missing) =>
        /\ Invocations(Iwgetid) = 1
        /\ (Ended /\ output.set /\ output.returncode = 0
              /\ Strip(output.stdout) # <<>>) =>
               ret = Return(PyStr(Strip(output.stdout)))

\* C3: on Linux, when termux-wifi-connectioninfo exits non-zero, or exits
\* zero with empty or white-space-only output, iwgetid is invoked exactly
\* once in that call.
C3_SoftFailureOneFallback ==
    (/\ os_name = "Linux"
     /\ result.set
     /\ result.returncode # 0 \/ Strip(result.stdout) = <<>>) =>
        Invocations(Iwgetid) = 1

C3_Witness ==
    /\ os_name = "Linux"
    /\ Ended
    /\ result = Completed(0, <<SP>>)
    /\ spawned = <<Termux, Iwgetid>>

\* C4: on Linux, when termux-wifi-connectioninfo exits zero with non-empty
\* output that is not JSON, the strategy raises ExtractionError at once,
\* iwgetid is never invoked, and main() returns None.
C4_ParseFailureNoFallback ==
    (/\ os_name = "Linux"
     /\ result.set
     /\ result.returncode = 0
     /\ Strip(result.stdout) # <<>>
     /\ ~JsonLoads(result.stdout).ok) =>
        /\ pc = "done"
        /\ outcome = Raise("ExtractionError")
        /\ Invocations(Iwgetid) = 0
        /\ spawned = <<Termux>>
        /\ Absent

C4_Witness ==
    /\ os_name = "Linux"
    /\ pc = "done"
    /\ result = Completed(0, <<"{", "\"ssid\"", "\"a\"", "}">>)
    /\ outcome = Raise("ExtractionError")

\* C5: on Linux, when termux-wifi-connectioninfo does not end within the
\* timeout, iwgetid is invoked exactly once and decides the outcome as it
\* does after a non-zero exit, and the child has been killed before iwgetid
\* starts: a child that outlives the timeout is alive only while
\* subprocess.run waits for it.
C5_TimeoutKillsThenFallsBack ==
    /\ \A c \in children :
         (c.cmd = Termux /\ (c.hangs \/ c.duration > Timeout)) =>
             pc = "wait_termux"
    /\ (os_name = "Linux" /\ killed # {}) =>
         /\ Invocations(Iwgetid) = 1
         /\ ~Running(Termux)
         /\ ~result.set
         /\ Ended => (pc = "done" /\ outcome = FallbackDecides /\ children = {})

C5_Witness ==
    /\ os_name = "Linux"
    /\ pc = "done"
    /\ \E c \in killed : ~c.hangs /\ c.duration = Timeout + 1
    /\ output = Completed(0, <<"a">>)
    /\ ret = Return(PyStr(<<"a">>))

\* C6: on Linux, once iwgetid has exited with code zero its trimmed output
\* decides the result: empty gives None and no error, non-empty gives
\* exactly the trimmed text.
C6_FallbackOutputDecides ==
    (os_name = "Linux" /\ output.set /\ output.returncode = 0) =>
        /\ pc = "done"
        /\ outcome.k = "return"
        /\ ret = outcome
        /\ IF \A i \in 1..Len(output.stdout) : IsSpace(output.stdout[i])
           THEN outcome.v = PyNone
           ELSE /\ outcome.v = PyStr(Strip(output.stdout))
                /\ ~IsSpace(Head(outcome.v.v))
                /\ ~IsSpace(outcome.v.v[Len(outcome.v.v)])

C6_Witness ==
    /\ os_name = "Linux"
    /\ pc = "done"
    /\ output = Completed(0, <<SP, "a", SP, "a", NL>>)
    /\ ret = Return(PyStr(<<"a", SP, "a">>))

\* C7: on Linux, when iwgetid is missing or exits non-zero, the strategy
\* raises ExtractionError, no command is invoked after iwgetid, and main()
\* returns None.
C7_FallbackFailureIsFinal ==
    (/\ os_name = "Linux"
     /\ Iwgetid \in missing \/ (output.set /\ output.returncode # 0)) =>
        /\ pc = "done"
        /\ outcome = Raise("ExtractionError")
        /\ spawned = <<Termux, Iwgetid>>
        /\ children = {}
        /\ Absent

C7_Witness ==
    /\ os_name = "Linux"
    /\ pc = "done"
    /\ Iwgetid \in missing
    /\ result = Completed(1, <<>>)
    /\ Absent

\* C8: at most one child is alive at any moment and at most two commands
\* are invoked; Windows invokes netsh alone, macOS airport alone, Linux
\* termux-wifi-connectioninfo and then at most iwgetid, which starts only
\* after the first child has ended; an unsupported platform invokes none.
C8_OneChildAtATime ==
    /\ Cardinality(children) <= 1
    /\ Len(spawned) <= 2
    /\ os_name = "Windows" =>
         /\ spawned \in {<<>>, <<Netsh>>}
         /\ pc # "start" => spawned = <<Netsh>>
    /\ os_name = "Darwin" =>
         /\ spawned \in {<<>>, <<Airport>>}
         /\ pc # "start" => spawned = <<Airport>>
    /\ os_name = "Linux" =>
         /\ spawned \in {<<>>, <<Termux>>, <<Termux, Iwgetid>>}
         /\ pc # "start" => spawned # <<>>
         /\ Invocations(Iwgetid) > 0 => ~Running(Termux)
    /\ os_name \notin {"Windows", "Linux", "Darwin"} => spawned = <<>>
    /\ \A c \in children : \E i \in 1..Len(spawned) : spawned[i] = c.cmd

C8_Witness ==
    /\ os_name = "Linux"
    /\ pc = "wait_iwgetid"
    /\ spawned = <<Termux, Iwgetid>>
    /\ children = {Child(Iwgetid, [hangs |-> FALSE, duration |-> 1])}
    /\ killed # {}

\* C9: on a platform that is none of Windows, Linux and Darwin the run ends
\* with NotSupportedError, logged as critical, which ranks above the error
\* level that extraction failures are logged at; main() returns None and
\* no command is invoked.
C9_UnsupportedPlatform ==
    /\ (os_name \notin {"Windows", "Linux", "Darwin"} /\ pc # "start") =>
         /\ pc = "done"
         /\ outcome = Raise("NotSupportedError")
         /\ LastLog = Rec("CRITICAL", "not_supported")
         /\ \A i \in 1..Len(log) : log[i].level # "ERROR"
         /\ Absent
         /\ spawned = <<>>
         /\ children = {}
    /\ (pc = "done" /\ outcome = Raise("ExtractionError")) =>
         /\ LastLog.level = "ERROR"
         /\ \A i \in 1..Len(log) :
              LevelRank(log[i].level) < LevelRank("CRITICAL")

C9_Witness ==
    /\ os_name = "Java"
    /\ pc = "done"
    /\ LastLog.level = "CRITICAL"
    /\ Absent

\* C10: on Windows and macOS, when the command exits with code zero and
\* its output has no match of the SSID marker pattern, the strategy returns
\* None without raising, main() logs a warning and no error, and returns
\* None.
C10_NoMarkerNotFound ==
    (/\ os_name \in {"Windows", "Darwin"}
     /\ output.set
     /\ output.returncode = 0
     /\ ~HasMarker(os_name, output.stdout)) =>
        /\ pc = "done"
        /\ exc = "none"
        /\ outcome = Return(PyNone)
        /\ LastLog = Rec("WARNING", "not_connected")
        /\ \A i \in 1..Len(log) : log[i].level \notin {"ERROR", "CRITICAL"}
        /\ Absent

C10_Witness ==
    /\ os_name = "Windows"
    /\ pc = "done"
    /\ output = Completed(0, <<"SSID", ":", SP, "a", NL>>)
    /\ outcome = Return(PyNone)
    /\ LastLog.level = "WARNING"

\* C11: on Windows and macOS, when the platform command is not found or
\* exits non-zero, the strategy raises ExtractionError made from that
\* exception, main() logs it as an error and returns None, and no second
\* command is invoked.
C11_CommandFailureIsFinal ==
    (/\ os_name \in {"Windows", "Darwin"}
     /\ missing # {} \/ (output.set /\ output.returncode # 0)) =>
        /\ pc = "done"
        /\ outcome = Raise("ExtractionError")
        /\ cause = (IF missing # {} THEN "FileNotFoundError"
                    ELSE "CalledProcessError")
        /\ LastLog = Rec("ERROR", "extract_failed")
        /\ Absent
        /\ Len(spawned) = 1
        /\ missing \subseteq {spawned[1]}
        /\ children = {}

C11_Witness ==
    /\ os_name = "Darwin"
    /\ pc = "done"
    /\ missing = {Airport}
    /\ spawned = <<Airport>>
    /\ cause = "FileNotFoundError"
    /\ Absent

\* the text without its white space
NoSpace(s) == SelectSeq(s, LAMBDA c : c # SP)

\* C12: on Linux, when termux-wifi-connectioninfo exits zero and prints a
\* JSON object whose ssid is a non-empty string, main() returns exactly
\* that string and iwgetid is never invoked.
C12_PreferredSsidReturned ==
    \A v \in {"\"a\"", "\"ssid\""} :
        (/\ os_name = "Linux"
         /\ result.set
         /\ result.returncode = 0
         /\ NoSpace(result.stdout) = <<"{", "\"ssid\"", ":", v, "}">>) =>
            /\ pc = "done"
            /\ outcome = Return(PyStr(StrVal(v)))
            /\ ret = Return(PyStr(StrVal(v)))
            /\ spawned = <<Termux>>
            /\ LastLog = Rec("INFO", "connected")

C12_Witness ==
    /\ os_name = "Linux"
    /\ pc = "done"
    /\ result = Completed(0, <<"{", "\"ssid\"", ":", "\"a\"", "}">>)
    /\ ret = Return(PyStr(<<"a">>))
    /\ spawned = <<Termux>>

\* the preferred Linux command soft-failed in this call: it timed out, exited
\* non-zero, or exited zero with nothing but white space on standard output
SoftFailed ==
    \/ killed # {}
    \/ result.set /\ (result.returncode # 0 \/ Strip(result.stdout) = <<>>)

\* what a call invokes and how its strategy ends, as a function of the
\* platform and of what the commands did during the call
ExpectedCall ==
    IF os_name = "Linux"
    THEN IF Termux \in missing
         THEN [spawned |-> <<Termux>>, outcome |-> Raise("FileNotFoundError")]
         ELSE IF SoftFailed
         THEN [spawned |-> <<Termux, Iwgetid>>, outcome |-> FallbackDecides]
         ELSE [spawned |-> <<Termux>>,
               outcome |->
                   LET info == JsonLoads(result.stdout)
                   IN  IF ~info.ok THEN Raise("ExtractionError")
                       ELSE IF info.val.t # "dict"
                       THEN Raise("AttributeError")
                       ELSE Return(DictGet(info.val, <<"ssid">>))]
    ELSE IF os_name \in {"Windows", "Darwin"}
    THEN [spawned |-> <<IF os_name = "Windows" THEN Netsh ELSE Airport>>,
          outcome |->
              IF missing # {} \/ output.returncode # 0
              THEN Raise("ExtractionError")
              ELSE IF HasMarker(os_name, output.stdout)
              THEN Return(PyStr(Strip(ReSearch(os_name, output.stdout).group)))
              ELSE Return(PyNone)]
    ELSE [spawned |-> <<>>, outcome |-> Raise("NotSupportedError")]

\* what main() returns for the outcome of the strategy
ExpectedRet ==
    IF outcome.k = "return"
    THEN IF Truthy(outcome.v) THEN outcome ELSE Return(PyNone)
    ELSE IF outcome.e \in {"ExtractionError", "NotSupportedError"}
    THEN Return(PyNone)
    ELSE Pending

C14_SoftFailureNotSurfaced ==
    (os_name = "Linux" /\ Ended /\ (SoftFailed \/ Termux \in missing)) =>
        /\ outcome = FallbackDecides
        /\ ret = ExpectedRet
        /\ pc = "done"

\* C15: on Linux, iwgetid is invoked only after termux-wifi-connectioninfo
\* has been invoked and has soft-failed in the same call: never first,
\* never after a successful extraction, never after a parse failure.
C15_FallbackOnlyAfterSoftFailure ==
    /\ Invocations(Iwgetid) > 0 =>
         /\ os_name = "Linux"
         /\ spawned = <<Termux, Iwgetid>>
         /\ SoftFailed \/ Termux \in missing
         /\ ~Running(Termux)
    /\ (result.set /\ result.returncode = 0 /\ Strip(result.stdout) # <<>>) =>
         Invocations(Iwgetid) = 0

C15_Witness ==
    /\ os_name = "Linux"
    /\ pc = "wait_iwgetid"
    /\ result = Completed(0, <<>>)
    /\ spawned = <<Termux, Iwgetid>>

\* C16: on Linux, when termux-wifi-connectioninfo exits zero and prints a
\* JSON object without an ssid key, or with ssid null, the strategy returns
\* None directly: iwgetid is not invoked and nothing is raised.
C16_NoSsidKeyNotFound ==
    (/\ os_name = "Linux"
     /\ result.set
     /\ result.returncode = 0
     /\ \/ NoSpace(result.stdout) = <<"{", "}">>
        \/ NoSpace(result.stdout) = <<"{", "\"ssid\"", ":", "null", "}">>
        \/ \E k \in {"\"a\"", "\"\""}, v \in JsonStrings \cup {"null", "1"} :
              NoSpace(result.stdout) = <<"{", k, ":", v, "}">>) =>
        /\ pc = "done"
        /\ outcome = Return(PyNone)
        /\ exc = "none"
        /\ spawned = <<Termux>>
        /\ LastLog = Rec("WARNING", "not_connected")
        /\ Absent

C16_Witness ==
    /\ os_name = "Linux"
    /\ pc = "done"
    /\ result = Completed(0, <<"{", "\"ssid\"", ":", "null", "}">>)
    /\ outcome = Return(PyNone)
    /\ spawned = <<Termux>>

\* C17: main() returns a value other than None only when the strategy
\* returned a non-empty string, and then exactly that string; when the
\* strategy returns None or an empty string main() logs the not-connected
\* warning and returns None.
C17_PresentOnlyNonEmptyString ==
    pc = "done" =>
        /\ ret # Return(PyNone) =>
             /\ outcome.k = "return"
             /\ outcome.v.t = "str"
             /\ outcome.v.v # <<>>
             /\ ret = outcome
        /\ (outcome.k = "return" /\ outcome.v \in {PyNone, PyStr(<<>>)}) =>
             /\ Absent
             /\ LastLog = Rec("WARNING", "not_connected")
        /\ (outcome.k = "return" /\ outcome.v.t = "str" /\ outcome.v.v # <<>>) =>
             ret = outcome

\* a command that runs without a timeout hangs
UntimedHang == \E c \in children : c.cmd # Termux /\ c.hangs

\* a bound on the steps a call has left: it falls with every step
Measure ==
    CASE pc = "start" -> Timeout + 3
      [] pc = "wait_termux" -> (Timeout - elapsed) + 2
      [] pc \in {"wait_netsh", "wait_airport", "wait_iwgetid"} -> 1
      [] OTHER -> 0

HangingTermux == \E c \in children : c.cmd = Termux /\ c.hangs

====
